---- MODULE Spec2Model ----
(***************************************************************************)
(* A model of gameinstance/audio: the FLAC decoder facade                   *)
(* (src/include/flac.hh) and the WAVE encoder (src/include/wave.hh).        *)
(*                                                                          *)
(* The byte stream under the decoder is not stored: its content is chosen   *)
(* when a call reads it (every field value, and where the stream ends).     *)
(* Every finite stream is one such sequence of choices.  The decoder checks *)
(* no call order, so the calls come in any order, also after one threw.     *)
(***************************************************************************)
EXTENDS Integers, Sequences, FiniteSets, TLC

\* ------------------------------------------------------------------ bounds
\* The decoder template's BUFFER_SIZE argument (8192 by default), instantiated small.
BUFFER_SIZE == 3
\* At most this many decode_metadata calls, and this many decode_audio calls, read
\* the stream before it ends.
MaxMetaBlocks == 1
MaxFrames == 1

\* ---------------------------------------------------------- program constants
max_channel_count == 2
FLAC_MARKER == 1716281667
FRAME_SYNC == 16382

Pow2(n) == 2 ^ n

\* ------------------------------------------------------------------ state
VARIABLES
    _istream,           \* "more": bytes remain; "eos": the bit reader reports end-of-stream
    _state,             \* decoder_state
    _streaminfo,        \* streaminfo_type
    _sample_count,
    _block_size,
    _block_sample_rate,
    _channel_idx,
    _frame_count,
    _coefficients,
    _buffer,            \* audio_data: <<channel 0, channel 1>>, each a sequence of samples
    crashed,            \* undefined behaviour ended the process
    call,               \* what the last decoder call did (history)
    hist,               \* counts over the run (history)
    _ostream,           \* wave encoder: the bytes put to the output stream
    w_streaminfo,       \* wave encoder: _streaminfo
    w_samples,          \* wave encoder: encode_sample calls that returned (history)
    w_thrown            \* wave encoder: encode_sample threw (history)

flac_vars == <<_istream, _state, _streaminfo, _sample_count, _block_size,
               _block_sample_rate, _channel_idx, _frame_count, _coefficients,
               _buffer, crashed, call, hist>>
wave_vars == <<_ostream, w_streaminfo, w_samples, w_thrown>>
vars == <<flac_vars, wave_vars>>

\* decoder_state, in declaration order
Rank(s) ==
    CASE s = "init" -> 0
      [] s = "has_marker" -> 1
      [] s = "has_metadata" -> 2
      [] s = "complete" -> 3

Zeros(n) == [i \in 1..n |-> 0]

\* streaminfo_type{}: value-initialised
streaminfo_zero ==
    [min_block_size |-> 0, max_block_size |-> 0, min_frame_size |-> 0,
     max_frame_size |-> 0, sample_rate |-> 0, channel_count |-> 0,
     sample_bit_size |-> 0, sample_count |-> 0]

NoCall == [op |-> "none"]

\* decoder::decoder
InitFlac ==
    /\ _istream \in {"more", "eos"}
    /\ _state = "init"
    /\ _streaminfo = streaminfo_zero
    /\ _sample_count = 0
    /\ _block_size = 0
    /\ _block_sample_rate = 0
    /\ _channel_idx = 0
    /\ _frame_count = 0
    /\ _coefficients = Zeros(32)
    /\ _buffer = <<Zeros(BUFFER_SIZE), Zeros(BUFFER_SIZE)>>
    /\ crashed = FALSE
    /\ call = NoCall
    /\ hist = [blocks |-> 0, si_writes |-> 0, frames |-> 0, misused |-> FALSE]

\* A call can be made: the process lives.
Usable == ~crashed

\* The model's integers are 32 bits wide: a field of 31 bits or more is kept as the
\* signed value it encodes, and every sample of the model is below 2^30.
Wide(n) == n >= 31

\* stream::bit::input: get_int(n) sign-extends the n-bit field u
get_int(n, u) == IF n > 0 /\ ~Wide(n) /\ u >= Pow2(n - 1) THEN u - Pow2(n) ELSE u

\* The state the class comment asks a call to be made in.
Documented(op) ==
    CASE op = "decode_marker" -> _state = "init"
      [] op = "decode_metadata" -> _state = "has_marker"
      [] op = "decode_audio" -> _state \in {"has_metadata", "complete"}

\* Whether, with this call, the caller has left the documented use: a call made in
\* another state than the documented one, or made after a call threw.
Misuse(op) == hist.misused \/ ~Documented(op) \/ (call.op # "none" /\ call.threw)

\* ------------------------------------------------------------ decode_marker
\* The 32-bit field read, whether the stream ends inside it, and whether bytes follow it.
MarkerInputs ==
    {[marker |-> 0, short |-> TRUE, rest |-> FALSE]}
    \cup [marker : {FLAC_MARKER, 0}, short : {FALSE}, rest : BOOLEAN]

\* The state decode_marker leaves when the 32 bits read are the marker.
MarkerState == "has_marker"

decode_marker ==
    /\ Usable
    /\ \/ /\ _istream = "eos"
          /\ call' = [op |-> "decode_marker", threw |-> TRUE, pre |-> _state,
                      read |-> FALSE]
          /\ UNCHANGED <<_istream, _state>>
       \/ /\ _istream = "more"
          /\ \E in \in MarkerInputs :
                LET ok == ~in.short /\ in.marker = FLAC_MARKER
                IN  /\ _state' = IF ok THEN MarkerState ELSE _state
                    /\ _istream' = IF in.short \/ ~in.rest THEN "eos" ELSE "more"
                    /\ call' = [op |-> "decode_marker", threw |-> ~ok, pre |-> _state,
                                read |-> TRUE]
    /\ hist' = [hist EXCEPT !.misused = Misuse("decode_marker")]
    /\ UNCHANGED <<_streaminfo, _sample_count, _block_size, _block_sample_rate,
                   _channel_idx, _frame_count, _coefficients, _buffer, crashed>>
    /\ UNCHANGED wave_vars

\* ---------------------------------------------------------- decode_metadata
\* STREAMINFO fields in the order decode_metadata reads them.
StreamInfoFields ==
    <<"min_block_size", "max_block_size", "min_frame_size", "max_frame_size",
      "sample_rate", "channel_count", "sample_bit_size", "sample_count">>

\* The value decode_metadata stores for field k from the raw bits read.
StoredField(k, raw) ==
    IF StreamInfoFields[k] \in {"channel_count", "sample_bit_size"} THEN raw + 1 ELSE raw

\* _streaminfo after the first n field assignments of the STREAMINFO branch.
WriteStreamInfo(si, raw, n) ==
    [f \in DOMAIN si |->
        IF \E k \in 1..n : StreamInfoFields[k] = f
        THEN LET k == CHOOSE k \in 1..n : StreamInfoFields[k] = f
             IN  StoredField(k, raw[f])
        ELSE si[f]]

\* Reads of one metadata block after its first byte (flag and type): the 24-bit
\* size, the eight STREAMINFO fields, the 16-byte signature (or the body skipped).
METADATA_READS == 10

\* "reads" is how many of those reads the stream still serves.  channel_count
\* shares a byte with the end of sample_rate, so the stream cannot end between them.
MetadataReads == (0..METADATA_READS) \ {6}

RawStreamInfos ==
    [min_block_size : {1}, max_block_size : {BUFFER_SIZE, BUFFER_SIZE + 1},
     min_frame_size : {0}, max_frame_size : {0}, sample_rate : {44100},
     channel_count : {0, 1, 2}, sample_bit_size : {7}, sample_count : {0}]

RawStreamInfo == CHOOSE r \in RawStreamInfos : TRUE

\* A STREAMINFO block (type 0) the stream holds whole or ends in, and another block
\* (type 4) with an empty or a non-empty body.
MetadataInputs ==
    [last : {0, 1}, type : {0}, size : {34}, raw : RawStreamInfos,
     reads : {METADATA_READS}, rest : {FALSE}]
    \cup [last : {0, 1}, type : {0}, size : {34},
          raw : {r \in RawStreamInfos : r.max_block_size = BUFFER_SIZE /\ r.channel_count < 2},
          reads : {METADATA_READS}, rest : {TRUE}]
    \cup [last : {0, 1}, type : {0}, size : {34}, raw : {RawStreamInfo},
          reads : MetadataReads \ {METADATA_READS}, rest : {FALSE}]
    \cup [last : {0, 1}, type : {4}, size : {0, 8}, raw : {RawStreamInfo},
          reads : {METADATA_READS}, rest : BOOLEAN]
    \cup [last : {0, 1}, type : {4}, size : {8}, raw : {RawStreamInfo},
          reads : {0, 1}, rest : {FALSE}]

\* The outcome of decode_metadata on a stream that is not at its end.
MetadataOutcome(in) ==
    LET written == IF in.type # 0 THEN 0
                   ELSE IF in.reads >= 9 THEN 8
                   ELSE IF in.reads >= 1 THEN in.reads - 1 ELSE 0
        si == WriteStreamInfo(_streaminfo, in.raw, written)
        short == IF in.type = 0 THEN in.reads < METADATA_READS
                 ELSE in.reads < 1 \/ (in.size > 0 /\ in.reads < METADATA_READS)
        refused == /\ in.type = 0
                   /\ written = 8
                   /\ \/ si.channel_count > max_channel_count
                      \/ si.max_block_size > BUFFER_SIZE
    IN  [state |-> IF in.last = 1 THEN "has_metadata" ELSE _state,
         streaminfo |-> si,
         written |-> written,
         threw |-> short \/ refused,
         eos |-> IF refused THEN ~in.rest ELSE short \/ ~in.rest]

decode_metadata ==
    /\ Usable
    /\ \/ /\ _istream = "eos"
          /\ call' = [op |-> "decode_metadata", threw |-> TRUE, pre |-> _state,
                      read |-> FALSE, last |-> 0, type |-> 0]
          /\ hist' = [hist EXCEPT !.misused = Misuse("decode_metadata")]
          /\ UNCHANGED <<_istream, _state, _streaminfo>>
       \/ /\ _istream = "more"
          /\ hist.blocks < MaxMetaBlocks
          /\ \E in \in MetadataInputs : \E out \in {MetadataOutcome(in)} :
                /\ _state' = out.state
                /\ _streaminfo' = out.streaminfo
                /\ _istream' = IF out.eos THEN "eos" ELSE "more"
                /\ call' = [op |-> "decode_metadata", threw |-> out.threw,
                            pre |-> _state, read |-> TRUE, last |-> in.last,
                            type |-> in.type]
                /\ hist' = [hist EXCEPT !.misused = Misuse("decode_metadata"),
                                        !.blocks = @ + 1,
                                        !.si_writes = @ + (IF out.written > 0
                                                           THEN 1 ELSE 0)]
    /\ UNCHANGED <<_sample_count, _block_size, _block_sample_rate, _channel_idx,
                   _frame_count, _coefficients, _buffer, crashed>>
    /\ UNCHANGED wave_vars

\* ------------------------------------------------- frame header code tables
\* Results of the helpers below: the value, or threw (reserved code point, or the
\* stream ending inside an explicit field).
Got(v) == [threw |-> FALSE, v |-> v]
Threw == [threw |-> TRUE, v |-> 0]

\* _get_block_size: x is the explicit 8- or 16-bit field that follows the header
\* (codes 6 and 7); the result is converted to uint16_t.
_get_block_size(flags_4bit, x) ==
    IF flags_4bit = 1 THEN Got(192)
    ELSE IF flags_4bit > 1 /\ flags_4bit < 6 THEN Got((144 * Pow2(flags_4bit)) % 65536)
    ELSE IF flags_4bit = 6 THEN Got((x + 1) % 65536)
    ELSE IF flags_4bit = 7 THEN Got((x + 1) % 65536)
    ELSE IF flags_4bit > 7 /\ flags_4bit < 16 THEN Got((256 * Pow2(flags_4bit - 8)) % 65536)
    ELSE Threw

\* _get_sample_rate: x is the explicit field of codes 12..14.
_get_sample_rate(flags_4bit, x) ==
    CASE flags_4bit = 0 -> Got(_streaminfo.sample_rate)
      [] flags_4bit = 1 -> Got(88200)
      [] flags_4bit = 2 -> Got(176400)
      [] flags_4bit = 3 -> Got(192000)
      [] flags_4bit = 4 -> Got(8000)
      [] flags_4bit = 5 -> Got(16000)
      [] flags_4bit = 6 -> Got(22050)
      [] flags_4bit = 7 -> Got(24000)
      [] flags_4bit = 8 -> Got(32000)
      [] flags_4bit = 9 -> Got(44100)
      [] flags_4bit = 10 -> Got(48000)
      [] flags_4bit = 11 -> Got(96000)
      [] flags_4bit = 12 -> Got(x * 1000)
      [] flags_4bit = 13 -> Got(x)
      [] flags_4bit = 14 -> Got(x * 10)
      [] OTHER -> Threw

\* _get_sample_bit_size
_get_sample_bit_size(flags_3bit) ==
    CASE flags_3bit = 0 -> Got(_streaminfo.sample_bit_size)
      [] flags_3bit = 1 -> Got(8)
      [] flags_3bit = 2 -> Got(12)
      [] flags_3bit = 4 -> Got(16)
      [] flags_3bit = 5 -> Got(20)
      [] flags_3bit = 6 -> Got(24)
      [] flags_3bit = 7 -> Got(32)
      [] OTHER -> Threw

\* --------------------------------------------------------- sample arithmetic
\* _fixed_prediction_coefficients[order]
_fixed_prediction_coefficients(order) ==
    CASE order = 0 -> <<>>
      [] order = 1 -> <<1>>
      [] order = 2 -> <<2, -1>>
      [] order = 3 -> <<3, -3, 1>>
      [] order = 4 -> <<4, -6, 4, -1>>

\* _get_rice_int: q zero bits before the 1 bit, then the bit_count-bit field r.
_get_rice_int(bit_count, q, r) ==
    LET uval == q * Pow2(bit_count) + r
    IN  IF uval % 2 = 1 THEN -(uval \div 2) - 1 ELSE uval \div 2

\* sum >> shift on int64_t, shift a uint8_t.  A count of 64 or more is undefined
\* behaviour: the count is taken modulo 64 ("mask") or the sign fills every bit ("fill").
Sar(sum, n) == IF Wide(n) THEN (IF sum < 0 THEN -1 ELSE 0) ELSE sum \div Pow2(n)

ShiftRight(sum, shift, ub) ==
    IF shift < 64 THEN Sar(sum, shift)
    ELSE IF ub = "mask" THEN Sar(sum, shift % 64)
    ELSE IF sum < 0 THEN -1 ELSE 0

RECURSIVE PredictionSum(_, _, _, _)
\* sum of buf[i - 1 - j] * coefficients[j] over j < n (i, j count from 0)
PredictionSum(buf, coefficients, i, n) ==
    IF n = 0 THEN 0
    ELSE PredictionSum(buf, coefficients, i, n - 1) + buf[i - (n - 1)] * coefficients[n]

RECURSIVE RestoreFrom(_, _, _, _, _, _)
RestoreFrom(buf, coefficients, order, shift, ub, i) ==
    IF i >= Len(buf) THEN buf
    ELSE LET sum == PredictionSum(buf, coefficients, i, order)
         IN  RestoreFrom([buf EXCEPT ![i + 1] = @ + ShiftRight(sum, shift, ub)],
                         coefficients, order, shift, ub, i + 1)

\* _restore_linear_prediction on the channel buffer buf
_restore_linear_prediction(buf, coefficients, order, shift, ub) ==
    RestoreFrom(buf, coefficients, order, shift, ub, order)

\* ------------------------------------------------------------- subframes
\* The n-bit field of the stream that holds the low n bits of v.
Field(n, v) == IF Wide(n) THEN v ELSE v % Pow2(n)

\* Element i (from 0) of the values a subframe's data repeats.
At(seq, i) == seq[(i % Len(seq)) + 1]

\* std::vector::resize: truncate, or extend with zeros
Resize(buf, n) ==
    IF n <= Len(buf) THEN SubSeq(buf, 1, n) ELSE buf \o Zeros(n - Len(buf))

\* The warm-up loop of _decode_subframe_fixed / _decode_subframe_lpc:
\* buf[i] = get_int(sample_bit_size) for i < order.  An index at or past the size
\* is outside the vector; that write does not change the elements.
WarmUp(buf, order, sample_bit_size, s) ==
    [j \in 1..Len(buf) |->
        IF j - 1 < order THEN get_int(sample_bit_size, Field(sample_bit_size, At(s.vals, j - 1)))
        ELSE buf[j]]

\* _decode_residuals on the channel buffer buf
_decode_residuals(buf, order, s) ==
    LET coding_method == s.method
        partition_count == Pow2(s.porder)
        escape_code == IF coding_method = 0 THEN 15 ELSE 31
        size == Len(buf)
        partition_size == size \div partition_count
        start(i) == (i * partition_size + (IF i = 0 THEN order ELSE 0)) % 65536
        end(i) == ((i + 1) * partition_size) % 65536
        written(j) == \E i \in 0..(partition_count - 1) : start(i) <= j /\ j < end(i)
        value(j) ==
            IF s.param < escape_code
            THEN _get_rice_int(s.param, At(s.res, j).q, At(s.res, j).r % Pow2(s.param))
            ELSE get_int(s.esc_bits, Field(s.esc_bits, At(s.res, j).q))
    IN  IF coding_method > 1 THEN [threw |-> TRUE, buf |-> buf]
        ELSE IF size % partition_count # 0 THEN [threw |-> TRUE, buf |-> buf]
        ELSE [threw |-> FALSE,
              buf |-> [j \in 1..size |-> IF written(j - 1) THEN value(j - 1) ELSE buf[j]]]

\* _decode_subframe_fixed
_decode_subframe_fixed(buf, order, sample_bit_size, s) ==
    LET Restored(res) ==
            IF res.threw THEN [threw |-> TRUE, buf |-> res.buf]
            ELSE [threw |-> FALSE,
                  buf |-> _restore_linear_prediction(res.buf,
                              _fixed_prediction_coefficients(order), order, 0, "mask")]
    IN  Restored(_decode_residuals(WarmUp(buf, order, sample_bit_size, s), order, s))

\* The coefficients _decode_subframe_lpc stores: _coefficients[i] = get_int(precision)
LpcCoefficients(coefficients, order, precision, s) ==
    [i \in 1..32 |->
        IF i <= order THEN get_int(precision, Field(precision, At(s.coefs, i - 1)))
        ELSE coefficients[i]]

\* _decode_subframe_lpc
_decode_subframe_lpc(buf, coefficients, order, sample_bit_size, s, ub) ==
    LET precision == s.precision + 1
        shift == get_int(5, s.shift)
        Restored(coefs, res) ==
            IF res.threw
            THEN [threw |-> TRUE, buf |-> res.buf, coefficients |-> coefs,
                  shift |-> shift, pre |-> res.buf]
            ELSE [threw |-> FALSE, coefficients |-> coefs,
                  shift |-> shift, pre |-> res.buf,
                  buf |-> _restore_linear_prediction(res.buf, coefs, order,
                                                     shift % 256, ub)]
    IN  Restored(LpcCoefficients(coefficients, order, precision, s),
                 _decode_residuals(WarmUp(buf, order, sample_bit_size, s), order, s))

\* The loop that ends _decode_subframe: for (auto sample: _buffer[_channel_idx])
\* sample <<= wasted_bits; each sample is a copy of the element, the vector is not written.
ShiftWasted(buf, wasted_bits) == buf

\* The reserved code points a subframe's fields hold, as far as the decoder reads them.
SubframeReserved(s) ==
    (IF s.type \in (2..7) \cup (13..31) THEN {"subframe_type"} ELSE {})
    \cup (IF s.type \in (8..12) \cup (32..63) /\ s.method > 1 THEN {"coding_method"} ELSE {})
    \cup (IF s.type \in 32..63 /\ s.precision = 15 THEN {"lpc_precision"} ELSE {})

\* _decode_subframe on the resized buffer buf of the current channel
_decode_subframe(buf, coefficients, sample_bit_size, s, ub) ==
    LET subframe_type == s.type
        wasted_bits == IF s.wflag = 1 THEN s.wzeros ELSE 0
        depth == (sample_bit_size - wasted_bits) % 256
        order == IF subframe_type < 32 THEN subframe_type - 8 ELSE subframe_type - 31
        predicted == subframe_type \in (8..12) \cup (32..63)
        Shifted(data) ==
            [threw |-> data.threw,
             buf |-> IF wasted_bits > 0 /\ ~data.threw
                     THEN ShiftWasted(data.buf, wasted_bits) ELSE data.buf,
             coefficients |-> data.coefficients,
             reserved |-> SubframeReserved(s),
             ub |-> (IF predicted /\ order > Len(buf) THEN {"index"} ELSE {})
                    \cup (IF subframe_type >= 32 /\ ~data.threw /\ order < Len(buf)
                             /\ get_int(5, s.shift) % 256 >= 64
                          THEN {"shift"} ELSE {}),
             type |-> subframe_type, wasted |-> wasted_bits, depth |-> depth,
             recon |-> data.buf,
             shift |-> IF subframe_type >= 32 THEN data.shift ELSE 0,
             pre |-> IF subframe_type >= 32 THEN data.pre ELSE <<>>,
             warmed |-> IF predicted THEN order ELSE 0,
             porder |-> s.porder]
    IN  IF s.short
        THEN [threw |-> TRUE, buf |-> buf, coefficients |-> coefficients,
              reserved |-> {}, ub |-> {}, type |-> subframe_type, wasted |-> wasted_bits,
              depth |-> depth, recon |-> buf, shift |-> 0, pre |-> <<>>,
              warmed |-> 0, porder |-> 0]
        ELSE Shifted(
            IF subframe_type = 0
            THEN [threw |-> FALSE, coefficients |-> coefficients,
                  buf |-> [j \in 1..Len(buf) |-> get_int(depth, Field(depth, At(s.vals, 0)))]]
            ELSE IF subframe_type = 1
            THEN [threw |-> FALSE, coefficients |-> coefficients,
                  buf |-> [j \in 1..Len(buf) |->
                              get_int(depth, Field(depth, At(s.vals, j - 1)))]]
            ELSE IF subframe_type < 8
            THEN [threw |-> TRUE, coefficients |-> coefficients, buf |-> buf]
            ELSE IF subframe_type < 13
            THEN [coefficients |-> coefficients]
                 @@ _decode_subframe_fixed(buf, order, depth, s)
            ELSE IF subframe_type < 32
            THEN [threw |-> TRUE, coefficients |-> coefficients, buf |-> buf]
            ELSE _decode_subframe_lpc(buf, coefficients, order, depth, s, ub))

\* ------------------------------------------------------------ decode_audio
\* What _decode_subframe leaves for the history of the call.
SubframeTrace(c, r) ==
    [channel |-> c, type |-> r.type, wasted |-> r.wasted, depth |-> r.depth,
     threw |-> r.threw, recon |-> r.recon, out |-> r.buf,
     shift |-> r.shift, pre |-> r.pre, coefficients |-> r.coefficients,
     warmed |-> r.warmed, porder |-> r.porder]

\* One pass of a subframe loop body for channel c: _buffer[c].resize(_block_size);
\* _decode_subframe(sample_bit_size).  _buffer holds max_channel_count vectors:
\* _buffer[c] with c past them is undefined behaviour, which ends the process,
\* throws out of resize ("throw"), or goes on without touching the two buffers.
SubframeStep(st, c, block_size, sample_bit_size, s, ub) ==
    IF st.threw THEN st
    ELSE IF c >= max_channel_count
    THEN [st EXCEPT !.channel_idx = c, !.threw = (ub = "throw"),
                    !.ub = @ \cup {"channel"},
                    !.subs = IF ub = "throw" THEN @
                             ELSE Append(@, [channel |-> c, type |-> s.type,
                                             wasted |-> 0, depth |-> sample_bit_size,
                                             threw |-> FALSE, recon |-> <<>>,
                                             out |-> <<>>, shift |-> 0, pre |-> <<>>,
                                             coefficients |-> st.coefficients,
                                             warmed |-> 0, porder |-> 0])]
    ELSE LET Stored(r) ==
                 [st EXCEPT !.channel_idx = c,
                            !.threw = r.threw,
                            !.short = s.short,
                            !.buffer = [@ EXCEPT ![c + 1] = r.buf],
                            !.coefficients = r.coefficients,
                            !.reserved = @ \cup r.reserved,
                            !.ub = @ \cup r.ub,
                            !.subs = Append(@, SubframeTrace(c, r))]
         IN  Stored(_decode_subframe(Resize(st.buffer[c + 1], block_size),
                                     st.coefficients, sample_bit_size, s,
                                     IF ub = "fill" THEN "fill" ELSE "mask"))

RECURSIVE IndependentChannels(_, _, _, _, _, _)
\* for (_channel_idx = 0; _channel_idx < _streaminfo.channel_count; ++_channel_idx)
IndependentChannels(st, c, block_size, sample_bit_size, f, ub) ==
    IF st.threw THEN st
    ELSE IF c >= _streaminfo.channel_count THEN [st EXCEPT !.channel_idx = c]
    ELSE IndependentChannels(
             SubframeStep(st, c, block_size, sample_bit_size, At(f.sub, c), ub),
             c + 1, block_size, sample_bit_size, f, ub)

\* Decorrelate with side / 2 (rounding toward zero) in place of side >> 1; the
\* stereo round trip C6 fails for it on an odd negative side value.
DecorrelateDividing(buffer, channel_assignment_bitset, block_size) ==
    LET b0 == buffer[1]
        b1 == buffer[2]
        n == block_size
    IN  IF channel_assignment_bitset = 8
        THEN <<b0, [i \in 1..Len(b1) |-> IF i <= n THEN b0[i] - b1[i] ELSE b1[i]]>>
        ELSE IF channel_assignment_bitset = 9
        THEN <<[i \in 1..Len(b0) |-> IF i <= n THEN b0[i] + b1[i] ELSE b0[i]], b1>>
        ELSE IF channel_assignment_bitset = 10
        THEN LET side(i) == b1[i]
                 half(i) == IF side(i) >= 0 THEN side(i) \div 2 ELSE -((-side(i)) \div 2)
                 right(i) == b0[i] - half(i)
             IN  <<[i \in 1..Len(b0) |-> IF i <= n THEN right(i) + side(i) ELSE b0[i]],
                   [i \in 1..Len(b1) |-> IF i <= n THEN right(i) ELSE b1[i]]>>
        ELSE buffer

\* The inter-channel reconstruction of decode_audio on <<_buffer[0], _buffer[1]>>,
\* over i < _block_size.
Decorrelate(buffer, channel_assignment_bitset, block_size) ==
    LET b0 == buffer[1]
        b1 == buffer[2]
        n == block_size
    IN  IF channel_assignment_bitset = 8
        THEN <<b0, [i \in 1..Len(b1) |-> IF i <= n THEN b0[i] - b1[i] ELSE b1[i]]>>
        ELSE IF channel_assignment_bitset = 9
        THEN <<[i \in 1..Len(b0) |-> IF i <= n THEN b0[i] + b1[i] ELSE b0[i]], b1>>
        ELSE IF channel_assignment_bitset = 10
        THEN LET side(i) == b1[i]
                 right(i) == b0[i] - (side(i) \div 2)
             IN  <<[i \in 1..Len(b0) |-> IF i <= n THEN right(i) + side(i) ELSE b0[i]],
                   [i \in 1..Len(b1) |-> IF i <= n THEN right(i) ELSE b1[i]]>>
        ELSE buffer

\* The SUBFRAME+ part of decode_audio.
DecodeSubframes(st, f, block_size, sample_bit_size, ub) ==
    LET ca == f.ca
    IN  IF ca < 8
        THEN IndependentChannels(st, 0, block_size, sample_bit_size, f, ub)
        ELSE IF ca < 11
        THEN LET Second(s0) ==
                     SubframeStep(s0, 1, block_size,
                         (sample_bit_size + (IF ca = 9 THEN 0 ELSE 1)) % 256,
                         At(f.sub, 1), ub)
                 Joined(s1) ==
                     IF s1.threw THEN s1
                     ELSE [s1 EXCEPT !.buffer = Decorrelate(@, ca, block_size)]
             IN  Joined(Second(SubframeStep(st, 0, block_size,
                            (sample_bit_size + (IF ca = 9 THEN 1 ELSE 0)) % 256,
                            At(f.sub, 0), ub)))
        ELSE [st EXCEPT !.threw = TRUE]

\* decode_audio past its end-of-stream test, on the frame f the stream holds.
FrameOutcome(f) ==
    LET old == [block_size |-> _block_size, block_sample_rate |-> _block_sample_rate,
                channel_idx |-> _channel_idx, sample_count |-> _sample_count,
                frame_count |-> _frame_count, coefficients |-> _coefficients,
                buffer |-> _buffer, threw |-> TRUE, short |-> FALSE,
                reserved |-> {}, ub |-> {}, subs |-> <<>>]
        header_reserved ==
            (IF f.bs = 0 THEN {"block_size"} ELSE {})
            \cup (IF f.sr = 15 THEN {"sample_rate"} ELSE {})
            \cup (IF f.sd = 3 THEN {"sample_depth"} ELSE {})
        read == [old EXCEPT !.reserved = header_reserved]
        bs == IF f.bs \in {6, 7} /\ f.short = "bs_x" THEN Threw
              ELSE _get_block_size(f.bs, Field(IF f.bs = 6 THEN 8 ELSE 16, f.bs_x))
        sr == IF f.sr \in 12..14 /\ f.short = "sr_x" THEN Threw
              ELSE _get_sample_rate(f.sr, Field(IF f.sr = 12 THEN 8 ELSE 16, f.sr_x))
        sbs == _get_sample_bit_size(f.sd)
        sized == [read EXCEPT !.block_size = bs.v]
        rated == [sized EXCEPT !.block_sample_rate = sr.v]
    IN  IF f.short = "sync" THEN [old EXCEPT !.short = TRUE]
        ELSE IF f.sync # FRAME_SYNC THEN old
        ELSE IF f.res1 # 0 THEN old
        ELSE IF f.short = "fields" THEN [old EXCEPT !.short = TRUE]
        ELSE IF f.res2 # 0 THEN read
        ELSE IF f.short = "utf8" THEN [read EXCEPT !.short = TRUE]
        ELSE IF bs.threw THEN [read EXCEPT !.short = f.bs # 0]
        ELSE IF sr.threw THEN [sized EXCEPT !.short = f.sr # 15]
        ELSE IF sbs.threw THEN rated
        ELSE IF f.short = "crc8" THEN [rated EXCEPT !.short = TRUE]
        ELSE LET Counted(st) ==
                     [st EXCEPT !.sample_count = @ + bs.v, !.frame_count = @ + 1]
                 Ended(st) ==
                     IF st.threw
                     THEN st
                     ELSE IF f.short = "crc16"
                     THEN [Counted(st) EXCEPT !.threw = TRUE, !.short = TRUE]
                     ELSE Counted(st)
             IN  Ended(DecodeSubframes([rated EXCEPT !.threw = FALSE], f,
                                       bs.v, sbs.v, f.ub))

\* ------------------------------------------------------- frames of the stream
\* A subframe's fields: type, the wasted-bits flag and its unary zero count, the
\* sample values its data repeats (vals), the residual coding method, partition
\* order, Rice parameter, escape width and codes (res), the LPC precision, shift
\* and coefficient fields, and whether the stream ends inside its header.
SubBase ==
    [type |-> 0, wflag |-> 0, wzeros |-> 0, vals |-> <<1>>, method |-> 0,
     porder |-> 0, param |-> 0, esc_bits |-> 0, res |-> <<[q |-> 0, r |-> 0]>>,
     precision |-> 0, shift |-> 0, coefs |-> <<1>>, short |-> FALSE]

SubframeTypes == {0, 1, 2, 7, 8, 9, 12, 13, 31, 33, 63}
WastedCodes == {<<0, 0>>, <<1, 0>>, <<1, 2>>}
ResidualCodes == {<<[q |-> 0, r |-> 0]>>, <<[q |-> 1, r |-> 0], [q |-> 2, r |-> 1]>>}

Subframes ==
    {[SubBase EXCEPT !.type = t, !.wflag = w[1], !.wzeros = w[2], !.vals = <<1, -2>>] :
        t \in SubframeTypes, w \in WastedCodes}
    \cup {[SubBase EXCEPT !.type = t, !.method = m, !.vals = <<2>>] :
            t \in {9, 33}, m \in 0..3}
    \cup {[SubBase EXCEPT !.type = t, !.porder = 1, !.res = r, !.param = k] :
            t \in {8, 9}, r \in ResidualCodes, k \in {1, 15}}
    \cup {[SubBase EXCEPT !.type = 9, !.method = 1, !.res = r, !.param = k, !.esc_bits = 3] :
            r \in ResidualCodes, k \in {31}}
    \cup {[SubBase EXCEPT !.type = t, !.precision = p, !.shift = h, !.coefs = <<-1, 2>>,
                          !.vals = <<4, -3>>] :
            t \in {32, 33}, p \in {1, 15}, h \in {0, 1, 16, 31}}
    \cup {[SubBase EXCEPT !.short = TRUE]}

\* A frame's fields: the header's (sync, reserved bits, the four codes, the
\* explicit block size and sample rate), a subframe per channel, where the stream
\* ends inside the frame (short), whether bytes follow the frame (rest), and the
\* outcome of undefined behaviour, should the call meet it (ub).
FrameBase ==
    [sync |-> FRAME_SYNC, res1 |-> 0, res2 |-> 0, bs |-> 6, bs_x |-> 1, sr |-> 0,
     sr_x |-> 0, ca |-> 0, sd |-> 0, sub |-> <<SubBase, SubBase>>,
     short |-> "none", rest |-> FALSE, ub |-> "go"]

BlockSizeCodes == {0, 1, 6, 7, 8}
ExplicitSizes == {0, 1, 2, 255, 65535}
SampleRateCodes == {0, 9, 12, 13, 14, 15}
SampleDepthCodes == {0, 1, 2, 3, 4}
Samples == {-3, -2, 0, 1, 2}

Verbatim(vals) == [SubBase EXCEPT !.type = 1, !.vals = vals]

HeaderFrames ==
    {[FrameBase EXCEPT !.sync = 0], [FrameBase EXCEPT !.res1 = 1],
     [FrameBase EXCEPT !.res2 = 1]}
    \cup {[FrameBase EXCEPT !.bs = b, !.bs_x = x] :
            b \in BlockSizeCodes \ {6, 7}, x \in {0}}
    \cup {[FrameBase EXCEPT !.bs = b, !.bs_x = x] : b \in {6, 7}, x \in ExplicitSizes}
    \cup {[FrameBase EXCEPT !.sr = r, !.sr_x = 44] : r \in SampleRateCodes}
    \cup {[FrameBase EXCEPT !.sd = d] : d \in SampleDepthCodes}
    \cup {[FrameBase EXCEPT !.ca = c, !.sub = <<SubBase, Verbatim(<<2, -1>>)>>] :
            c \in 0..15}
    \cup {[FrameBase EXCEPT !.ca = c, !.rest = TRUE] : c \in {0, 1}}
    \cup {[FrameBase EXCEPT !.ub = u] : u \in {"crash", "throw"}}

SubframeFrames ==
    {[FrameBase EXCEPT !.bs_x = x, !.sub = <<s, SubBase>>, !.ub = u] :
        x \in {0, 2}, s \in Subframes, u \in {"go"}}
    \cup {[FrameBase EXCEPT !.bs_x = x, !.sub = <<s, SubBase>>, !.ub = u] :
            x \in {0, 2}, s \in {t \in Subframes : t.type \in {12, 33} /\ t.wflag = 0},
            u \in {"crash", "fill"}}
    \cup {[FrameBase EXCEPT !.bs_x = 1, !.sub = <<s, SubBase>>] :
            s \in {t \in Subframes : t.porder = 1}}

StereoFrames ==
    {[FrameBase EXCEPT !.ca = c, !.bs_x = 0,
                       !.sub = <<Verbatim(<<a>>), Verbatim(<<b>>)>>] :
        c \in {8, 9, 10}, a \in Samples \ {-2}, b \in Samples}
    \cup {[FrameBase EXCEPT !.ca = c, !.bs_x = 1, !.rest = TRUE,
                            !.sub = <<Verbatim(<<1, -2>>), Verbatim(<<2, 1>>)>>] :
            c \in {8, 9, 10}}

ShortFrames ==
    {[FrameBase EXCEPT !.short = h, !.bs = 7, !.sr = 12] :
        h \in {"sync", "fields", "utf8", "bs_x", "sr_x", "crc8", "crc16"}}
    \cup {[FrameBase EXCEPT !.sub = <<SubBase, [SubBase EXCEPT !.short = TRUE]>>]}

Frames == HeaderFrames \cup SubframeFrames \cup StereoFrames \cup ShortFrames

\* The outcomes undefined behaviour has: a frame's ub is used only by a call that
\* meets undefined behaviour of a kind with that outcome.
UbOutcome(f, out) ==
    \/ f.ub = "go"
    \/ f.ub = "crash" /\ out.ub \cap {"channel", "index"} # {}
    \/ f.ub = "throw" /\ "channel" \in out.ub
    \/ f.ub = "fill" /\ "shift" \in out.ub

\* decode_audio at end of stream returning without the assignment to _state; the
\* end-of-stream property C5 fails for it.
decode_audio_eos_return ==
    /\ _istream = "eos"
    /\ call' = [op |-> "decode_audio", threw |-> FALSE, pre |-> _state, read |-> FALSE,
                frame |-> FALSE, ca |-> 0, reserved |-> {}, ub |-> {}, subs |-> <<>>]
    /\ hist' = [hist EXCEPT !.misused = Misuse("decode_audio")]
    /\ UNCHANGED <<_state, _istream, _streaminfo, _sample_count, _block_size,
                   _block_sample_rate, _channel_idx, _frame_count, _coefficients,
                   _buffer, crashed>>

\* if (_istream.eos()) { _state = state_type::complete; return; }
decode_audio_eos ==
    /\ _istream = "eos"
    /\ _state' = "complete"
    /\ call' = [op |-> "decode_audio", threw |-> FALSE, pre |-> _state, read |-> FALSE,
                frame |-> FALSE, ca |-> 0, reserved |-> {}, ub |-> {}, subs |-> <<>>]
    /\ hist' = [hist EXCEPT !.misused = Misuse("decode_audio")]
    /\ UNCHANGED <<_istream, _streaminfo, _sample_count, _block_size,
                   _block_sample_rate, _channel_idx, _frame_count, _coefficients,
                   _buffer, crashed>>

\* decode_audio on a stream that holds more bytes
decode_audio_frame ==
    /\ _istream = "more"
    /\ hist.frames < MaxFrames
    /\ \E f \in Frames : \E out \in {FrameOutcome(f)} :
          /\ UbOutcome(f, out)
          /\ _block_size' = out.block_size
          /\ _block_sample_rate' = out.block_sample_rate
          /\ _channel_idx' = out.channel_idx
          /\ _sample_count' = out.sample_count
          /\ _frame_count' = out.frame_count
          /\ _coefficients' = out.coefficients
          /\ _buffer' = out.buffer
          /\ crashed' = (out.ub # {} /\ f.ub = "crash")
          /\ _istream' = IF out.short \/ ~f.rest THEN "eos" ELSE "more"
          /\ call' = [op |-> "decode_audio", threw |-> out.threw, pre |-> _state,
                      read |-> TRUE, frame |-> ~out.threw, ca |-> f.ca,
                      reserved |-> out.reserved, ub |-> out.ub, subs |-> out.subs]
    /\ hist' = [hist EXCEPT !.misused = Misuse("decode_audio"), !.frames = @ + 1]
    /\ UNCHANGED <<_state, _streaminfo>>

decode_audio ==
    /\ Usable
    /\ decode_audio_eos \/ decode_audio_frame
    /\ UNCHANGED wave_vars

\* ------------------------------------------------------------ wave encoder
\* At most this many sample frames in a stream descriptor.
MaxWaveSamples == 2

\* Byte k (from 0) of value: (value >> (8 * k)) & 0xff
Byte(value, k) == (value \div Pow2(8 * k)) % 256

_put_int32(value) == <<Byte(value, 0), Byte(value, 1), Byte(value, 2), Byte(value, 3)>>
_put_int24(value) == <<Byte(value, 0), Byte(value, 1), Byte(value, 2)>>
_put_int16(value) == <<Byte(value, 0), Byte(value, 1)>>
_put_int8(value) == <<Byte(value, 0)>>
\* _put_string: the characters' codes
_put_string(value) ==
    CASE value = "RIFF" -> <<82, 73, 70, 70>>
      [] value = "WAVE" -> <<87, 65, 86, 69>>
      [] value = "fmt " -> <<102, 109, 116, 32>>
      [] value = "data" -> <<100, 97, 116, 97>>

\* wave::streaminfo_type{}
wave_streaminfo_zero ==
    [sample_rate |-> 0, sample_bit_size |-> 0, channel_count |-> 0, sample_count |-> 0]

\* The bytes encode_header puts for the descriptor info.
HeaderBytes(info) ==
    LET data_size == info.channel_count * info.sample_count * info.sample_bit_size
        frame_size == (info.sample_bit_size \div 8) * info.channel_count
        byte_rate == frame_size * info.sample_rate
    IN  _put_string("RIFF") \o _put_int32(4 + 8 + 16 + 8 + data_size)
        \o _put_string("WAVE") \o _put_string("fmt ") \o _put_int32(16)
        \o _put_int16(1) \o _put_int16(info.channel_count) \o _put_int32(info.sample_rate)
        \o _put_int32(byte_rate) \o _put_int16(frame_size)
        \o _put_int16(info.sample_bit_size)
        \o _put_string("data") \o _put_int32(data_size)

WaveInfos ==
    [sample_rate : {8000}, sample_bit_size : {8, 12, 16, 24, 32}, channel_count : {1, 2},
     sample_count : 0..MaxWaveSamples]

\* encoder::encode_header, called once on a new encoder as the driver does
encode_header ==
    /\ _ostream = <<>>
    /\ \E info \in WaveInfos :
          /\ _ostream' = HeaderBytes(info)
          /\ w_streaminfo' = info
    /\ UNCHANGED <<w_samples, w_thrown>>
    /\ UNCHANGED flac_vars

\* The bytes encode_sample puts for sample; <<>> with supported FALSE is its throw.
SampleBytes(sample_bit_size, sample) ==
    CASE sample_bit_size = 8 -> _put_int8(sample)
      [] sample_bit_size = 16 -> _put_int16(sample)
      [] sample_bit_size = 24 -> _put_int24(sample)
      [] sample_bit_size = 32 -> _put_int32(sample)
      [] OTHER -> <<>>

WaveSamples == {1, -2}

\* encoder::encode_sample, called channel_count x sample_count times after the header
encode_sample ==
    /\ _ostream # <<>>
    /\ ~w_thrown
    /\ w_samples < w_streaminfo.channel_count * w_streaminfo.sample_count
    /\ \E sample \in WaveSamples :
          IF w_streaminfo.sample_bit_size \in {8, 16, 24, 32}
          THEN /\ _ostream' = _ostream \o SampleBytes(w_streaminfo.sample_bit_size, sample)
               /\ w_samples' = w_samples + 1
               /\ UNCHANGED w_thrown
          ELSE /\ w_thrown' = TRUE
               /\ UNCHANGED <<_ostream, w_samples>>
    /\ UNCHANGED w_streaminfo
    /\ UNCHANGED flac_vars

\* The 32-bit little-endian field at bytes at+1 .. at+4 of the output.
Le32(bytes, at) ==
    bytes[at + 1] + 256 * bytes[at + 2] + 65536 * bytes[at + 3]
    + 16777216 * (IF bytes[at + 4] >= 128 THEN bytes[at + 4] - 256 ELSE bytes[at + 4])

\* ------------------------------------------------------------ driver (main)
\* main has left its try block through the catch: a decoder or encoder call threw,
\* or the sample rate test after decode_audio did.
MainFailed ==
    \/ call.op # "none" /\ call.threw
    \/ w_thrown
    \/ call.op = "decode_audio" /\ _block_sample_rate # w_streaminfo.sample_rate

\* flac_istream.decode_marker();
main_marker ==
    /\ call.op = "none"
    /\ decode_marker

\* while (state() != has_metadata) decode_metadata();
main_metadata ==
    /\ call.op \in {"decode_marker", "decode_metadata"}
    /\ ~MainFailed
    /\ _ostream = <<>>
    /\ _state # "has_metadata"
    /\ decode_metadata

\* wave_ostream.encode_header({info.sample_rate, info.sample_bit_size,
\* info.channel_count, info.sample_count}) with info = flac_istream.streaminfo()
main_header ==
    /\ call.op \in {"decode_marker", "decode_metadata"}
    /\ ~MainFailed
    /\ _ostream = <<>>
    /\ _state = "has_metadata"
    /\ \E info \in {[sample_rate |-> _streaminfo.sample_rate,
                      sample_bit_size |-> _streaminfo.sample_bit_size,
                      channel_count |-> _streaminfo.channel_count,
                      sample_count |-> _streaminfo.sample_count]} :
          /\ _ostream' = HeaderBytes(info)
          /\ w_streaminfo' = info
    /\ UNCHANGED <<w_samples, w_thrown>>
    /\ UNCHANGED flac_vars

\* The bytes of the two inner loops of main: encode_sample(block_data()[channel][i])
\* for i < block_size, channel < channel_count.
BlockBytes(buffer, block_size, channel_count, sample_bit_size) ==
    LET width == sample_bit_size \div 8
        sample(k) == buffer[((k \div width) % channel_count) + 1]
                           [((k \div width) \div channel_count) + 1]
    IN  [k \in 1..(block_size * channel_count * width) |->
            SampleBytes(sample_bit_size, sample(k - 1))[((k - 1) % width) + 1]]

\* One pass of while (state() != complete) { decode_audio(); ... }
main_audio ==
    /\ Usable
    /\ ~MainFailed
    /\ _ostream # <<>>
    /\ _state # "complete"
    /\ decode_audio_eos \/ decode_audio_frame
    /\ IF call'.threw \/ crashed' \/ _block_sample_rate' # w_streaminfo.sample_rate
          \/ _block_size' = 0
       THEN UNCHANGED wave_vars
       ELSE IF w_streaminfo.sample_bit_size \in {8, 16, 24, 32}
       THEN /\ _ostream' = _ostream \o BlockBytes(_buffer', _block_size',
                                w_streaminfo.channel_count, w_streaminfo.sample_bit_size)
            /\ w_samples' = w_samples + _block_size' * w_streaminfo.channel_count
            /\ UNCHANGED <<w_streaminfo, w_thrown>>
       ELSE /\ w_thrown' = TRUE
            /\ UNCHANGED <<_ostream, w_streaminfo, w_samples>>

\* ------------------------------------------------------------ specification
InitWave ==
    /\ _ostream = <<>>
    /\ w_streaminfo = wave_streaminfo_zero
    /\ w_samples = 0
    /\ w_thrown = FALSE

Init == InitFlac /\ InitWave

Next == decode_marker \/ decode_metadata \/ decode_audio

\* The decoder, called in any order on any stream.
Spec == Init /\ [][Next]_vars

NextWave == encode_header \/ encode_sample

\* The wave encoder, given a header and then its samples.
SpecWave == Init /\ [][NextWave]_vars

NextMain == main_marker \/ main_metadata \/ main_header \/ main_audio

\* The driver: marker, metadata blocks, the wave header, then the decode loop.
SpecMain == Init /\ [][NextMain]_vars

\* ------------------------------------------------------------ properties
\* At most this large a sample value when the stereo identities are solved.
MaxSample == 4

\* C1: the decoder state only moves forward along Init, HasMarker, HasMetadata,
\* Complete; no call moves it backward.
C1_StateMonotonic == [][Rank(_state') >= Rank(_state)]_vars

\* C2: a decode_metadata() call made in HasMarker leaves the state HasMetadata
\* exactly when it read a block whose last-block flag is 1 and completed without
\* error; otherwise the state is still HasMarker.
C2_MetadataTransition ==
    (call.op = "decode_metadata" /\ call.pre = "has_marker" /\ ~hist.misused)
        => /\ (_state = "has_metadata") <=> (call.read /\ call.last = 1 /\ ~call.threw)
           /\ _state \in {"has_marker", "has_metadata"}

\* C3: in every state where the decoder is HasMetadata or Complete, reached by
\* calls made as documented of which none failed, the StreamInfo fields were written by exactly one
\* decode_metadata() call.
C3_StreamInfoOnce ==
    (/\ _state \in {"has_metadata", "complete"}
     /\ ~hist.misused
     /\ call.op # "none"
     /\ ~call.threw)
        => hist.si_writes = 1

\* The last call was a decode_audio() that decoded a frame, every call so far was
\* made as documented, and the frame made the decoder do nothing undefined.
DecodedFrame ==
    /\ call.op = "decode_audio"
    /\ call.frame
    /\ call.ub = {}
    /\ ~hist.misused

\* C4: after a decode_audio() call that decoded a frame, block_size() is at least 1
\* and at most max_block_size, which is at most BUFFER_SIZE.
C4_BlockSizeBounds ==
    DecodedFrame
        => /\ 1 <= _block_size
           /\ _block_size <= _streaminfo.max_block_size
           /\ _streaminfo.max_block_size <= BUFFER_SIZE

\* C5: a decode_audio() call made at end of stream sets the state to Complete and
\* reads nothing, and a decode_audio() call made in Complete leaves the state
\* Complete and produces no samples.
C5_EndOfStream ==
    [][(call'.op = "decode_audio" /\ (_istream = "eos" \/ _state = "complete"))
          => /\ _state' = "complete"
             /\ ~call'.read
             /\ _istream' = _istream
             /\ _buffer' = _buffer
             /\ _block_size' = _block_size
             /\ _frame_count' = _frame_count]_vars

\* C5 witness: decode_audio() was called again in Complete, after a frame was decoded.
C5_Witness ==
    /\ call.op = "decode_audio"
    /\ call.pre = "complete"
    /\ _state = "complete"
    /\ _frame_count > 0

\* The two subframes of a stereo frame as the encoder derives them from (l, r).
StereoEncoded(channel_assignment_bitset, l, r) ==
    CASE channel_assignment_bitset = 8 -> <<l, l - r>>
      [] channel_assignment_bitset = 9 -> <<l - r, r>>
      [] channel_assignment_bitset = 10 -> <<(l + r) \div 2, l - r>>

\* The stereo frame the last call decoded holds, at sample i, the encoding of (l, r).
StereoCase(i, l, r) ==
    /\ call.op = "decode_audio"
    /\ call.frame
    /\ call.ca \in {8, 9, 10}
    /\ Len(call.subs) = 2
    /\ i \in 1.._block_size
    /\ <<call.subs[1].out[i], call.subs[2].out[i]>> = StereoEncoded(call.ca, l, r)

\* C6: for a stereo frame whose subframes hold the left-side, side-right or mid-side
\* encoding of the pair (l, r), the decoded buffers hold exactly (l, r).
C6_StereoRoundTrip ==
    \A i \in 1.._block_size, l \in -MaxSample..MaxSample, r \in -MaxSample..MaxSample :
        StereoCase(i, l, r) => (_buffer[1][i] = l /\ _buffer[2][i] = r)

\* C6 witness: a mid-side frame was decoded whose side value is odd and negative.
C6_Witness ==
    \E i \in 1.._block_size, l \in -MaxSample..MaxSample, r \in -MaxSample..MaxSample :
        /\ StereoCase(i, l, r)
        /\ call.ca = 10
        /\ l < r
        /\ (r - l) % 2 = 1

\* C7: once the header and channel_count x sample_count samples are written, the data
\* chunk size field equals the number of sample bytes that follow the header, which
\* is channel_count x sample_count x (sample_bit_size / 8), and the RIFF chunk size
\* field is 36 plus that number.
C7_WaveSizes ==
    (/\ Len(_ostream) >= 44
     /\ w_streaminfo.sample_bit_size \in {8, 16, 24, 32}
     /\ w_samples = w_streaminfo.channel_count * w_streaminfo.sample_count)
        => /\ Le32(_ostream, 40) = Len(_ostream) - 44
           /\ Le32(_ostream, 40)
                = w_streaminfo.channel_count * w_streaminfo.sample_count
                    * (w_streaminfo.sample_bit_size \div 8)
           /\ Le32(_ostream, 4) = 36 + (Len(_ostream) - 44)

\* The channels of the subframes the last call decoded, in order.
Channels(subs) == [k \in 1..Len(subs) |-> subs[k].channel]

\* C8: a decoded frame whose channel assignment code is below 8 has exactly code + 1
\* subframes, for channels 0 .. code, and a frame with code 8, 9 or 10 has exactly two.
C8_SubframeCount ==
    DecodedFrame
        => /\ call.ca < 8 => Channels(call.subs) = [k \in 1..(call.ca + 1) |-> k - 1]
           /\ call.ca \in {8, 9, 10} => Channels(call.subs) = <<0, 1>>

\* C9: a subframe with k > 0 wasted bits yields, for every sample, the value
\* reconstructed at the reduced depth multiplied by 2^k.
C9_WastedBitsRestored ==
    DecodedFrame
        => \A k \in 1..Len(call.subs) :
              (call.subs[k].wasted > 0 /\ ~call.subs[k].threw)
                  => \A i \in 1..Len(call.subs[k].out) :
                        call.subs[k].out[i]
                            = call.subs[k].recon[i] * Pow2(call.subs[k].wasted)

\* C10: a frame in which a field read by the call holds a reserved code is rejected:
\* the call fails and no frame is reported as decoded.
C10_ReservedRejected ==
    (/\ call.op = "decode_audio"
     /\ call.read
     /\ call.ub = {}
     /\ ~hist.misused
     /\ call.reserved # {})
        => (call.threw /\ ~call.frame)

\* The LPC subframes the last call reconstructed (the prediction loop ran): the
\* call decoded a frame under documented use, subframe k is of type 32..63.
LpcRestored(k) ==
    /\ call.op = "decode_audio"
    /\ call.frame
    /\ ~hist.misused
    /\ k \in 1..Len(call.subs)
    /\ call.subs[k].type >= 32
    /\ ~call.subs[k].threw
    /\ call.subs[k].type - 31 < Len(call.subs[k].pre)

\* The shift amount the claim has applied for the signed 5-bit field S.
ClampedShift(S) == IF S < 0 THEN 0 ELSE S

\* C11: for every signed 5-bit shift field S the LPC reconstruction computes
\* buf[i] += sum >> (S clamped to 0..15 from below at 0): a negative S shifts by 0.
C11_NegativeShiftClamped ==
    \A k \in 1..max_channel_count :
        LpcRestored(k)
            => call.subs[k].recon
                 = _restore_linear_prediction(call.subs[k].pre, call.subs[k].coefficients,
                       call.subs[k].type - 31, ClampedShift(call.subs[k].shift), "mask")

\* C12: under the driver's loop the samples consumed per channel are the sum of the
\* block sizes of the frames decoded (_sample_count); the decode_audio() call that
\* moves the state to Complete adds none.
C12_ConsumedOnce ==
    (_ostream # <<>> /\ ~MainFailed /\ ~crashed)
        => w_samples = _sample_count * w_streaminfo.channel_count

\* The indices the warm-up loop writes: for (i = 0; i < order; ++i) buf[i] = ...
WarmUpWrites(order) == 0..(order - 1)

\* The indices _decode_residuals writes on a buffer of size samples: j from start to
\* end - 1 in each of the 2^partition_order partitions.
ResidualWrites(size, order, partition_order) ==
    LET partition_count == Pow2(partition_order)
        partition_size == size \div partition_count
    IN  UNION {((i * partition_size + (IF i = 0 THEN order ELSE 0)) % 65536)
                  .. ((((i + 1) * partition_size) % 65536) - 1) :
               i \in 0..(partition_count - 1)}

\* The indices _restore_linear_prediction writes: i from order to size - 1.
PredictionWrites(size, order) == order..(size - 1)

\* C13: every write of decode_audio() into a channel's buffer is at an index below
\* the channel's active length: the warm-up writes, the residual writes and the
\* prediction writes of every Fixed and LPC subframe, also when order > block_size.
C13_WritesInBounds ==
    (call.op = "decode_audio" /\ call.read /\ ~hist.misused)
        => \A k \in 1..Len(call.subs) :
              /\ WarmUpWrites(call.subs[k].warmed) \subseteq 0..(Len(call.subs[k].out) - 1)
              /\ (call.subs[k].warmed > 0 /\ ~call.subs[k].threw)
                    => /\ ResidualWrites(Len(call.subs[k].out), call.subs[k].warmed,
                                         call.subs[k].porder)
                            \subseteq 0..(Len(call.subs[k].out) - 1)
                       /\ PredictionWrites(Len(call.subs[k].out), call.subs[k].warmed)
                            \subseteq 0..(Len(call.subs[k].out) - 1)

====
